---- MODULE Spec2Model ----
(***************************************************************************)
(* State-machine model of the SFDA drug export tool (src/main.py): the     *)
(* in-memory job store, the /start, /status and /download handlers, and    *)
(* the background thread fetch_sfda_data that walks the pages, exports     *)
(* the collected records and publishes the result on the job record.       *)
(*                                                                         *)
(* Every assignment of fetch_sfda_data to a field of the shared job record *)
(* is a step of its own, since the request handlers run on other threads   *)
(* and can observe the record between any two of them.                     *)
(***************************************************************************)
EXTENDS Integers, Sequences, FiniteSets, TLC

\* ------------------------------------------------------------------ bounds
MaxJobs  == 2    \* number of /start requests served
MaxPages == 3    \* largest value of TOTAL_PAGES explored (880 in the source)
MaxBatch == 1    \* largest number of records in one page of results
MaxTime  == 1    \* largest reading of the wall clock

JobIds   == 1..MaxJobs          \* the values uuid4 can return
UnknownId == 0                  \* an id that no /start ever returned
AnyId    == JobIds \cup {UnknownId}

VARIABLES
    TOTAL_PAGES,   \* module constant TOTAL_PAGES, fixed at start-up
    jobs,          \* the dict jobs: job id -> job record
    threads,       \* the threads started by start_job, in start order
    files,         \* the working directory: file name -> exported rows
    now,           \* the wall clock read by time.time()
    response       \* the response of the request served last

vars == <<TOTAL_PAGES, jobs, threads, files, now, response>>

\* ------------------------------------------------------------------ values
None == <<>>                                   \* Python's None (job["file"])

Msg(text, page) == [text |-> text, page |-> page]

\* file_name without the job id: one name for every job
file_nameFixed(job_id) == <<"SFDA_Drugs_List", ".xlsx">>

\* f"SFDA_Drugs_{job_id}.xlsx"
file_name(job_id) == <<"SFDA_Drugs_", job_id, ".xlsx">>

\* A response: which handler answered which id, the kind of body ("json",
\* "file", or "raised" when the handler or the framework raised instead of
\* answering), the error text of an error payload, for a file response
\* the path handed to FileResponse and the rows of the file served, and for
\* a status response the job record returned.
NoJob == [none |-> TRUE]

Response(op, job_id, body, error, path, rows) ==
    [op |-> op, job_id |-> job_id, body |-> body, error |-> error,
     path |-> path, rows |-> rows, job |-> NoJob]

NoResponse == Response("none", UnknownId, "none", "", None, <<>>)

\* One record of the upstream: opaque, identified by its page and position.
Row(page, n) == [page |-> page, n |-> n]

Batch(page, size) == [n \in 1..size |-> Row(page, n)]

\* What one GET of a page can end in: an exception (retry budget spent,
\* timeout, HTTP error status, malformed body), or a parsed body whose
\* "results" are empty/absent or a non-empty list.
Responses(page) ==
    {[kind |-> "error", results |-> <<>>], [kind |-> "ok", results |-> <<>>]}
    \cup {[kind |-> "ok", results |-> Batch(page, s)] : s \in 1..MaxBatch}

\* ------------------------------------------------------------------ start-up
Init ==
    /\ TOTAL_PAGES \in 0..MaxPages
    /\ jobs = <<>>
    /\ threads = <<>>
    /\ files = <<>>
    /\ now = 0
    /\ response = NoResponse

\* time passes
Tick ==
    /\ now < MaxTime
    /\ now' = now + 1
    /\ UNCHANGED <<TOTAL_PAGES, jobs, threads, files, response>>

\* ------------------------------------------------------------------ /start
\* uuid4 called once, when the module is loaded: every job gets the same id
uuid4Once(used) == {1}

\* str(uuid.uuid4()): an id that was never returned before
uuid4(used) == JobIds \ used

\* The locals of a thread at its start, and what is recorded about it for
\* the properties: log, the answers of the upstream to its requests;
\* changed, the clock when it last wrote a field of its job record (the
\* record is created at the clock of /start); exports, how many times it
\* has called to_excel.
NewThread(job_id) ==
    [job_id |-> job_id, pc |-> "l29", page |-> 0, all_data |-> <<>>,
     processed_pages |-> 0, failed_pages |-> 0, log |-> <<>>,
     changed |-> now, exports |-> 0]

start_job ==
    /\ Len(threads) < MaxJobs
    /\ \E job_id \in uuid4(DOMAIN jobs) :
          /\ jobs' = [j \in DOMAIN jobs \cup {job_id} |->
                        IF j = job_id
                        THEN [status |-> "queued",
                              current_page |-> 0,
                              total_pages |-> TOTAL_PAGES,
                              message |-> Msg("Job queued", 0),
                              file |-> None,
                              last_updated |-> now]
                        ELSE jobs[j]]
          /\ threads' = Append(threads, NewThread(job_id))
          /\ response' = Response("start", job_id, "json", "", None, <<>>)
    /\ UNCHANGED <<TOTAL_PAGES, files, now>>

\* ------------------------------------------------------------------ fetch_sfda_data
Threads == 1..Len(threads)

\* the threads there can be
ThreadIds == 1..MaxJobs

\* ForNext with the range one too long: range(1, TOTAL_PAGES + 2)
ForNextPastEnd(th) ==
    IF th.page <= TOTAL_PAGES
    THEN [th EXCEPT !.page = @ + 1, !.pc = "l55"]
    ELSE [th EXCEPT !.pc = "l88"]

\* the header of "for page in range(1, TOTAL_PAGES + 1)"
ForNext(th) ==
    IF th.page < TOTAL_PAGES
    THEN [th EXCEPT !.page = @ + 1, !.pc = "l55"]
    ELSE [th EXCEPT !.pc = "l88"]

\* Store when every job record is one and the same dict
StoreShared(t, field, value, th) ==
    /\ jobs' = [j \in DOMAIN jobs |-> [jobs[j] EXCEPT ![field] = value]]
    /\ threads' = [threads EXCEPT ![t] = [th EXCEPT !.changed = now]]
    /\ UNCHANGED <<TOTAL_PAGES, files, now, response>>

\* job[field] = value by thread t, which then continues as th
Store(t, field, value, th) ==
    /\ jobs' = [jobs EXCEPT ![threads[t].job_id][field] = value]
    /\ threads' = [threads EXCEPT ![t] = [th EXCEPT !.changed = now]]
    /\ UNCHANGED <<TOTAL_PAGES, files, now, response>>

At(t, pc) == t \in Threads /\ threads[t].pc = pc

Goto(t, pc) == [threads[t] EXCEPT !.pc = pc]

\* SetRunning that announces the start in the message and leaves the status
SetRunningNoStatus(t) ==
    /\ At(t, "l29")
    /\ Store(t, "message", Msg("Initializing request session...", 0), Goto(t, "l30"))

SetRunning(t) ==
    /\ At(t, "l29")
    /\ Store(t, "status", "running", Goto(t, "l30"))

SetInitMessage(t) ==
    /\ At(t, "l30")
    /\ Store(t, "message", Msg("Initializing request session...", 0), Goto(t, "l31"))

SetInitTime(t) ==
    /\ At(t, "l31")
    /\ Store(t, "last_updated", now, ForNext(threads[t]))

\* SetCurrentPage that reports the last page done, not the one being fetched
SetCurrentPageDone(t) ==
    /\ At(t, "l55")
    /\ Store(t, "current_page", threads[t].page - 1, Goto(t, "l56"))

\* SetCurrentPage that reports the number of pages collected so far
SetCurrentPageCollected(t) ==
    /\ At(t, "l55")
    /\ Store(t, "current_page", threads[t].processed_pages, Goto(t, "l56"))

SetCurrentPage(t) ==
    /\ At(t, "l55")
    /\ Store(t, "current_page", threads[t].page, Goto(t, "l56"))

SetFetchMessage(t) ==
    /\ At(t, "l56")
    /\ Store(t, "message", Msg("Fetching page", threads[t].page), Goto(t, "l57"))

SetFetchTime(t) ==
    /\ At(t, "l57")
    /\ Store(t, "last_updated", now, Goto(t, "l60"))

\* AfterFetch without the except clause: an exception of the GET ends the thread
AfterFetchUncaught(th, resp) ==
    LET logged == [th EXCEPT !.log = Append(@, [page |-> th.page, resp |-> resp])]
    IN  IF resp.kind = "error"
        THEN [logged EXCEPT !.pc = "raised_l60"]
        ELSE IF resp.results = <<>>
        THEN [logged EXCEPT !.pc = "l88"]
        ELSE ForNext([logged EXCEPT !.all_data = @ \o resp.results,
                                    !.processed_pages = @ + 1])

\* AfterFetch without the break: an empty page is passed over
AfterFetchNoBreak(th, resp) ==
    LET logged == [th EXCEPT !.log = Append(@, [page |-> th.page, resp |-> resp])]
    IN  IF resp.kind = "error"
        THEN [logged EXCEPT !.failed_pages = @ + 1, !.pc = "l84"]
        ELSE IF resp.results = <<>>
        THEN ForNext(logged)
        ELSE ForNext([logged EXCEPT !.all_data = @ \o resp.results,
                                    !.processed_pages = @ + 1])

\* the thread after the try block has received resp for its page
AfterFetch(th, resp) ==
    LET logged == [th EXCEPT !.log = Append(@, [page |-> th.page, resp |-> resp])]
    IN  IF resp.kind = "error"
        THEN [logged EXCEPT !.failed_pages = @ + 1, !.pc = "l84"]
        ELSE IF resp.results = <<>>
        THEN [logged EXCEPT !.pc = "l88"]
        ELSE ForNext([logged EXCEPT !.all_data = @ \o resp.results,
                                    !.processed_pages = @ + 1])

Fetch(t) ==
    /\ At(t, "l60")
    /\ \E resp \in Responses(threads[t].page) :
          threads' = [threads EXCEPT ![t] = AfterFetch(threads[t], resp)]
    /\ UNCHANGED <<TOTAL_PAGES, jobs, files, now, response>>

\* SetRetryMessage that does retry: the loop takes the same page again
SetRetryMessageSamePage(t) ==
    /\ At(t, "l84")
    /\ Store(t, "message", Msg("Retrying page", threads[t].page), Goto(t, "l55"))

SetRetryMessage(t) ==
    /\ At(t, "l84")
    /\ Store(t, "message", Msg("Retrying page", threads[t].page), ForNext(threads[t]))

\* the thread after a call of to_excel, continuing at pc
AfterExport(t, pc) == [threads[t] EXCEPT !.pc = pc, !.exports = @ + 1]

\* Export with a handler for the exception of to_excel that marks the job
\* "failed" before the thread ends
ExportMarksFailed(t) ==
    /\ At(t, "l88")
    /\ \/ /\ files' = [f \in DOMAIN files \cup {file_name(threads[t].job_id)} |->
                         IF f = file_name(threads[t].job_id)
                         THEN threads[t].all_data
                         ELSE files[f]]
          /\ threads' = [threads EXCEPT ![t] = AfterExport(t, "l97")]
          /\ jobs' = jobs
       \/ /\ files' = files
          /\ threads' = [threads EXCEPT ![t] = AfterExport(t, "raised_l89")]
          /\ jobs' = [jobs EXCEPT ![threads[t].job_id].status = "failed"]
    /\ UNCHANGED <<TOTAL_PAGES, now, response>>

\* pd.DataFrame(all_data).to_excel(file_name): writes the file, or raises and
\* ends the thread
Export(t) ==
    /\ At(t, "l88")
    /\ \/ /\ files' = [f \in DOMAIN files \cup {file_name(threads[t].job_id)} |->
                         IF f = file_name(threads[t].job_id)
                         THEN threads[t].all_data
                         ELSE files[f]]
          /\ threads' = [threads EXCEPT ![t] = AfterExport(t, "l97")]
       \/ /\ files' = files
          /\ threads' = [threads EXCEPT ![t] = AfterExport(t, "raised_l89")]
    /\ UNCHANGED <<TOTAL_PAGES, jobs, now, response>>

SetCompleted(t) ==
    /\ At(t, "l97")
    /\ Store(t, "status", "completed", Goto(t, "l98"))

SetFile(t) ==
    /\ At(t, "l98")
    /\ Store(t, "file", file_name(threads[t].job_id), Goto(t, "l99"))

SetFinalMessage(t) ==
    /\ At(t, "l99")
    /\ Store(t, "message", Msg("Completed successfully", 0), Goto(t, "l100"))

SetFinalTime(t) ==
    /\ At(t, "l100")
    /\ Store(t, "last_updated", now, Goto(t, "returned"))

fetch_sfda_data(t) ==
    \/ SetRunning(t)
    \/ SetInitMessage(t)
    \/ SetInitTime(t)
    \/ SetCurrentPage(t)
    \/ SetFetchMessage(t)
    \/ SetFetchTime(t)
    \/ Fetch(t)
    \/ SetRetryMessage(t)
    \/ Export(t)
    \/ SetCompleted(t)
    \/ SetFile(t)
    \/ SetFinalMessage(t)
    \/ SetFinalTime(t)

\* ------------------------------------------------------------------ /status
\* job_status with jobs[job_id] for jobs.get: an unknown id raises KeyError
job_statusKeyError(job_id) ==
    /\ response' = IF job_id \in DOMAIN jobs
                   THEN Response("status", job_id, "json", "", None, <<>>)
                   ELSE Response("status", job_id, "raised", "", None, <<>>)
    /\ UNCHANGED <<TOTAL_PAGES, jobs, threads, files, now>>

\* jobs.get(job_id, {"error": "Invalid job id"}): the record itself, or the
\* error payload.  The record returned is the one in jobs at this moment.
StatusResult(job_id) ==
    IF job_id \in DOMAIN jobs
    THEN [Response("status", job_id, "json", "", None, <<>>) EXCEPT !.job = jobs[job_id]]
    ELSE Response("status", job_id, "json", "Invalid job id", None, <<>>)

job_status(job_id) ==
    /\ response' = StatusResult(job_id)
    /\ UNCHANGED <<TOTAL_PAGES, jobs, threads, files, now>>

\* ------------------------------------------------------------------ /download
\* FileResponse(path, ...): serves the file at path; it raises when path is
\* None or names no file.
FileResponse(job_id, path) ==
    IF path # None /\ path \in DOMAIN files
    THEN Response("download", job_id, "file", "", path, files[path])
    ELSE Response("download", job_id, "raised", "", path, <<>>)

DownloadResult(job_id) ==
    IF job_id \notin DOMAIN jobs \/ jobs[job_id].status # "completed"
    THEN Response("download", job_id, "json", "File not ready", None, <<>>)
    ELSE FileResponse(job_id, jobs[job_id].file)

\* download that hands the file out once: it takes the file name off the record
downloadOnce(job_id) ==
    /\ response' = DownloadResult(job_id)
    /\ jobs' = IF job_id \in DOMAIN jobs /\ jobs[job_id].status = "completed"
               THEN [jobs EXCEPT ![job_id].file = None]
               ELSE jobs
    /\ UNCHANGED <<TOTAL_PAGES, threads, files, now>>

download(job_id) ==
    /\ response' = DownloadResult(job_id)
    /\ UNCHANGED <<TOTAL_PAGES, jobs, threads, files, now>>

\* ------------------------------------------------------------------ specifications
\* The jobs and their threads.
Next ==
    \/ start_job
    \/ \E t \in ThreadIds : fetch_sfda_data(t)

Spec == Init /\ [][Next]_vars

\* The same under the scheduling of the threads by the operating system: a
\* thread that can take a step eventually takes one (every GET returns or
\* raises within its timeout and retry budget, every sleep ends).
FairSpec ==
    Spec /\ \A t \in ThreadIds : WF_vars(fetch_sfda_data(t))

\* The jobs and their threads, with status and download requests served at
\* any moment in between.
ServeNext ==
    \/ Next
    \/ \E job_id \in AnyId : job_status(job_id)
    \/ \E job_id \in AnyId : download(job_id)

ServeSpec == Init /\ [][ServeNext]_vars

\* The jobs and their threads, with the clock running.
ClockNext ==
    \/ Next
    \/ Tick

ClockSpec == Init /\ [][ClockNext]_vars

\* ------------------------------------------------------------------ helpers of the properties
Job(t) == jobs[threads[t].job_id]

\* the thread has left the function, by return or by an uncaught exception
Ended(t) == threads[t].pc \in {"returned", "raised_l89"}

\* to_excel has been called and has returned
Exported(t) == threads[t].pc \in {"l97", "l98", "l99", "l100", "returned"}

\* to_excel has been called
ExportCalled(t) == Exported(t) \/ threads[t].pc = "raised_l89"

\* ------------------------------------------------------------------ C1
\* C1: in every reachable state, intermediate states of the final writes
\* included, a job's file is set if and only if its status is "completed".
\* The thread sets the status on line 97 and the file on line 98, so the
\* state between the two lines violates it.
C1_FileIffCompleted ==
    \A j \in DOMAIN jobs : (jobs[j].file # None) <=> (jobs[j].status = "completed")

\* ------------------------------------------------------------------ C2
\* the thread of job j
ThreadOf(j) == CHOOSE t \in Threads : threads[t].job_id = j

AllFetchesFailed(t) ==
    \A i \in 1..Len(threads[t].log) : threads[t].log[i].resp.kind = "error"

\* C2 as stated: every submitted job reaches "completed" and none is ever
\* "failed".  For finite runs: only the job's thread writes the status, so
\* a job that reaches "completed" at all has reached it when its thread has
\* ended.  A thread whose to_excel raised has ended with status "running".
C2_EndedIsCompleted ==
    \A t \in Threads :
        /\ Job(t).status # "failed"
        /\ Ended(t) => Job(t).status = "completed"

\* C2, amended: under fair scheduling every submitted job eventually is
\* "completed", whatever its fetches returned, or its to_excel has raised,
\* and then its thread has ended with the status left "running" and no file;
\* no job is ever "failed".
C2_CompletedOrExportRaised ==
    /\ \A j \in JobIds :
          (j \in DOMAIN jobs) ~>
             (/\ j \in DOMAIN jobs
              /\ \/ jobs[j].status = "completed"
                 \/ /\ threads[ThreadOf(j)].pc = "raised_l89"
                    /\ jobs[j].status = "running"
                    /\ jobs[j].file = None)
    /\ [](\A j \in DOMAIN jobs : jobs[j].status # "failed")

\* a job whose every page failed is "completed", with no record collected
C2_Witness ==
    \E t \in Threads :
        /\ TOTAL_PAGES = MaxPages
        /\ Len(threads[t].log) = TOTAL_PAGES
        /\ AllFetchesFailed(t)
        /\ threads[t].all_data = <<>>
        /\ Job(t).status = "completed"
        /\ threads[t].pc = "returned"

\* ------------------------------------------------------------------ C3
\* C3: current_page never decreases from one state to the next, it is 0 in
\* a record just created, and it is at most total_pages in every state.
C3_CurrentPage ==
    /\ [](\A j \in DOMAIN jobs : jobs[j].current_page <= jobs[j].total_pages)
    /\ [][\A j \in DOMAIN jobs : jobs'[j].current_page >= jobs[j].current_page]_vars
    /\ [][\A j \in DOMAIN jobs' \ DOMAIN jobs : jobs'[j].current_page = 0]_vars

\* a job has just written its last page number, total_pages
C3_Witness ==
    \E t \in Threads :
        /\ TOTAL_PAGES = MaxPages
        /\ threads[t].pc = "l56"
        /\ Job(t).current_page = Job(t).total_pages
        /\ Job(t).current_page = MaxPages

\* ------------------------------------------------------------------ what the upstream answered
\* the pages thread t has requested so far
Fetched(t) == {threads[t].log[i].page : i \in 1..Len(threads[t].log)}

\* the answer thread t got for page p
RespOf(t, p) ==
    threads[t].log[CHOOSE i \in 1..Len(threads[t].log) : threads[t].log[i].page = p].resp

GotBatch(t, p) ==
    p \in Fetched(t) /\ RespOf(t, p).kind = "ok" /\ RespOf(t, p).results # <<>>

GotEmpty(t, p) ==
    p \in Fetched(t) /\ RespOf(t, p).kind = "ok" /\ RespOf(t, p).results = <<>>

GotError(t, p) ==
    p \in Fetched(t) /\ RespOf(t, p).kind = "error"

\* the batches thread t got for pages 1..n, in page order
RECURSIVE BatchesUpTo(_, _)
BatchesUpTo(t, n) ==
    IF n = 0 THEN <<>>
    ELSE BatchesUpTo(t, n - 1) \o (IF GotBatch(t, n) THEN RespOf(t, n).results ELSE <<>>)

\* the file written for thread t's job
FileOf(t) == files[file_name(threads[t].job_id)]

\* ------------------------------------------------------------------ C4
\* pages 1..k-1 answered with non-empty results and page k with empty ones
EndsAt(t, k) ==
    /\ \A p \in 1..(k - 1) : GotBatch(t, p)
    /\ GotEmpty(t, k)

\* C4: if the upstream answered pages 1..k-1 with non-empty results and
\* page k <= TOTAL_PAGES with empty or absent results, the thread requests
\* no page after k, and the list it hands to to_excel (and the file written
\* from it) is the batches of pages 1..k-1 in page order.
C4_StopsAtEmptyPage ==
    \A t \in Threads : \A k \in 1..TOTAL_PAGES :
        EndsAt(t, k) =>
            /\ \A p \in Fetched(t) : p <= k
            /\ ExportCalled(t) => threads[t].all_data = BatchesUpTo(t, k - 1)
            /\ Exported(t) => FileOf(t) = BatchesUpTo(t, k - 1)

\* one job stopped at an empty page 2 of 3 and exported page 1; another
\* stopped at an empty page 3 and exported pages 1 and 2 in this order
C4_Witness ==
    /\ TOTAL_PAGES = 3
    /\ \E t, u \in Threads :
          /\ EndsAt(t, 2) /\ threads[t].pc = "returned"
          /\ FileOf(t) = Batch(1, 1)
          /\ EndsAt(u, 3) /\ threads[u].pc = "returned"
          /\ FileOf(u) = Batch(1, 1) \o Batch(2, 1)

\* ------------------------------------------------------------------ C5
HasFailed(t) == \E p \in Fetched(t) : GotError(t, p)

\* the first page answered with empty results, or TOTAL_PAGES + 1 if none was
StopPage(t) ==
    IF \E p \in Fetched(t) : GotEmpty(t, p)
    THEN CHOOSE p \in Fetched(t) :
            GotEmpty(t, p) /\ \A q \in Fetched(t) : GotEmpty(t, q) => p <= q
    ELSE TOTAL_PAGES + 1

\* the job of t is where the amended claims say a job ends up
CompletedOrExportRaised(t) ==
    \/ Job(t).status = "completed"
    \/ /\ threads[t].pc = "raised_l89"
       /\ Job(t).status = "running"
       /\ Job(t).file = None

\* a failed page is requested once, the next request is for the next page,
\* no record of it is collected, and the list handed to to_excel (and the
\* file written) is the batches of the pages that succeeded before the
\* first empty page, in page order
FailedPagesAbandoned(t) ==
    LET log == threads[t].log
    IN  /\ \A i \in 1..Len(log) :
              log[i].resp.kind = "error" =>
                 /\ \A r \in 1..Len(threads[t].all_data) :
                       threads[t].all_data[r].page # log[i].page
                 /\ \A i2 \in 1..Len(log) : i2 # i => log[i2].page # log[i].page
                 /\ i < Len(log) => log[i + 1].page = log[i].page + 1
        /\ HasFailed(t) /\ ExportCalled(t) =>
              threads[t].all_data = BatchesUpTo(t, StopPage(t) - 1)
        /\ HasFailed(t) /\ Exported(t) =>
              FileOf(t) = BatchesUpTo(t, StopPage(t) - 1)

\* C5 as stated: a failed page is abandoned, the exported list is the
\* batches of the succeeded pages in page order, and the job still reaches
\* "completed".  For finite runs: the job is "completed" when its thread has
\* ended.  A thread whose to_excel raised has ended with status "running".
C5_FailedPageStillCompleted ==
    \A t \in Threads :
        /\ FailedPagesAbandoned(t)
        /\ HasFailed(t) /\ Ended(t) => Job(t).status = "completed"

\* C5, amended: a failed page is abandoned and the thread goes on to the
\* next page; the list handed to to_excel is the batches of the pages that
\* succeeded before the first empty page, in page order; and the job
\* eventually is "completed", or its to_excel has raised and its status is
\* left "running" with no file.
C5_FailedPageAbandoned ==
    /\ [](\A t \in Threads : FailedPagesAbandoned(t))
    /\ \A j \in JobIds :
          (j \in DOMAIN jobs /\ HasFailed(ThreadOf(j))) ~>
             (j \in DOMAIN jobs /\ CompletedOrExportRaised(ThreadOf(j)))

\* page 2 of 3 failed: the job is "completed" with pages 1 and 3 in its file
C5_Witness ==
    \E t \in Threads :
        /\ TOTAL_PAGES = 3
        /\ GotBatch(t, 1) /\ GotError(t, 2) /\ GotBatch(t, 3)
        /\ threads[t].pc = "returned"
        /\ Job(t).status = "completed"
        /\ FileOf(t) = Batch(1, 1) \o Batch(3, 1)

\* ------------------------------------------------------------------ C6
\* there is no page, or page 1 was answered with empty results
NoData(t) == TOTAL_PAGES = 0 \/ GotEmpty(t, 1)

\* to_excel is called with the empty list, and a thread that returns leaves
\* the job "completed" with its file name set and an empty file written
EmptyExport(t) ==
    /\ NoData(t) /\ ExportCalled(t) => threads[t].all_data = <<>>
    /\ NoData(t) /\ Exported(t) => FileOf(t) = <<>>
    /\ NoData(t) /\ threads[t].pc = "returned" =>
          /\ Job(t).status = "completed"
          /\ Job(t).file = file_name(threads[t].job_id)

\* C6 as stated: with TOTAL_PAGES = 0 or an empty page 1 the job reaches
\* "completed" with its file set, and the export is called with the empty
\* list.  For finite runs: so it is when the thread has ended.  A thread
\* whose to_excel raised has ended with status "running" and no file.
C6_NoDataStillCompleted ==
    \A t \in Threads :
        /\ EmptyExport(t)
        /\ NoData(t) /\ Ended(t) =>
              /\ Job(t).status = "completed"
              /\ Job(t).file = file_name(threads[t].job_id)

\* C6, amended: with TOTAL_PAGES = 0 or an empty page 1, to_excel is called
\* with the empty list, and the job eventually is "completed" with its file
\* name set and an empty file written, or its to_excel has raised and its
\* status is left "running" with no file.
C6_NoDataExportsEmpty ==
    /\ [](\A t \in Threads : EmptyExport(t))
    /\ \A j \in JobIds :
          (j \in DOMAIN jobs /\ NoData(ThreadOf(j))) ~>
             (/\ j \in DOMAIN jobs
              /\ \/ /\ jobs[j].status = "completed"
                    /\ jobs[j].file = file_name(j)
                    /\ files[file_name(j)] = <<>>
                 \/ /\ threads[ThreadOf(j)].pc = "raised_l89"
                    /\ jobs[j].status = "running"
                    /\ jobs[j].file = None)

\* page 1 of several was empty: the job is "completed" with an empty file
C6_Witness ==
    \E t \in Threads :
        /\ TOTAL_PAGES = MaxPages
        /\ GotEmpty(t, 1)
        /\ threads[t].pc = "returned"
        /\ Job(t).status = "completed"
        /\ Job(t).file = file_name(threads[t].job_id)
        /\ FileOf(t) = <<>>

\* ------------------------------------------------------------------ C7
\* this step serves a request of kind op for job_id
Served(op, job_id) ==
    response' # response /\ response'.op = op /\ response'.job_id = job_id

\* C7: a download request for a job, served at any moment, answers "File
\* not ready" when the status is not "completed", and when it is
\* "completed" it serves the file written by this job's thread.  Between
\* lines 97 and 98 the status is "completed" and the file is still None:
\* FileResponse(None) raises.
C7_DownloadServesOwnFile ==
    [][\A j \in DOMAIN jobs :
          Served("download", j) =>
             IF jobs[j].status # "completed"
             THEN response' = Response("download", j, "json", "File not ready", None, <<>>)
             ELSE /\ response'.body = "file"
                  /\ response'.path = file_name(j)
                  /\ response'.rows = threads[ThreadOf(j)].all_data]_vars

\* ------------------------------------------------------------------ C8
\* C8: for a job id that is not in jobs, a status request answers the
\* "Invalid job id" payload and a download request an error payload;
\* neither raises and neither creates or changes a job record.
C8_UnknownJobId ==
    [][\A id \in AnyId \ DOMAIN jobs :
          /\ Served("status", id) =>
                /\ response'.body = "json"
                /\ response'.error = "Invalid job id"
                /\ jobs' = jobs
          /\ Served("download", id) =>
                /\ response'.body = "json"
                /\ response'.error = "File not ready"
                /\ jobs' = jobs]_vars

\* a status request for an id not in jobs was answered "Invalid job id"
\* while a job was running
C8_Witness ==
    /\ response.op = "status"
    /\ response.job_id \notin DOMAIN jobs
    /\ response.error = "Invalid job id"
    /\ \E j \in DOMAIN jobs : jobs[j].status = "running"

\* ------------------------------------------------------------------ C9
\* this step is a step of thread t
StepOf(t) == threads'[t] # threads[t]

\* C9: a step of the thread of job A leaves every field of the record of
\* any other job B, and the records B's thread has collected, unchanged.
C9_JobsIndependent ==
    [][\A t \in Threads : \A u \in Threads :
          StepOf(t) /\ threads[u].job_id # threads[t].job_id =>
             /\ jobs'[threads[u].job_id] = jobs[threads[u].job_id]
             /\ threads'[u].all_data = threads[u].all_data]_vars

\* two jobs are fetching, one page 2 and the other page 1
C9_Witness ==
    \E t, u \in Threads :
        /\ threads[t].pc = "l60" /\ Job(t).current_page = 2
        /\ Job(t).message = Msg("Fetching page", 2)
        /\ threads[t].all_data # <<>>
        /\ threads[u].pc = "l60" /\ Job(u).current_page = 1
        /\ Job(u).message = Msg("Fetching page", 1)

\* ------------------------------------------------------------------ C10
\* C10: a /start creates one record under an id not in jobs, with status
\* "queued", current_page 0 and no file, and starts one thread for that
\* id; in every state a job has one thread, and a record changes only by
\* a step of its job's thread.
C10_OneCoordinatorPerJob ==
    /\ [](\A j \in DOMAIN jobs :
            Cardinality({t \in Threads : threads[t].job_id = j}) = 1)
    /\ [][DOMAIN jobs' # DOMAIN jobs \/ Len(threads') # Len(threads) =>
            \E id \in JobIds \ DOMAIN jobs :
                /\ DOMAIN jobs' = DOMAIN jobs \cup {id}
                /\ jobs'[id].status = "queued"
                /\ jobs'[id].current_page = 0
                /\ jobs'[id].file = None
                /\ Len(threads') = Len(threads) + 1
                /\ threads'[Len(threads')].job_id = id
                /\ threads'[Len(threads')].pc = "l29"
                /\ \A t \in Threads : threads'[t] = threads[t]
                /\ response' = Response("start", id, "json", "", None, <<>>)]_vars
    /\ [][\A j \in DOMAIN jobs :
            jobs'[j] # jobs[j] =>
               \E t \in Threads : threads[t].job_id = j /\ StepOf(t)]_vars

\* a second job has just been created while the first is fetching
C10_Witness ==
    \E t, u \in Threads :
        /\ threads[u].pc = "l29"
        /\ Job(u).status = "queued" /\ Job(u).current_page = 0 /\ Job(u).file = None
        /\ threads[t].pc = "l60" /\ Job(t).status = "running"
        /\ threads[t].job_id # threads[u].job_id

\* ------------------------------------------------------------------ C11
\* C11: a status changes only from "queued" to "running" and from "running"
\* to "completed" (never backwards, never past "running"), a new record is
\* "queued", and once a status is "completed" no step changes it.
C11_StatusOrder ==
    /\ [][\A j \in DOMAIN jobs :
            jobs'[j].status # jobs[j].status =>
               \/ jobs[j].status = "queued" /\ jobs'[j].status = "running"
               \/ jobs[j].status = "running" /\ jobs'[j].status = "completed"]_vars
    /\ [][\A j \in DOMAIN jobs :
            jobs[j].status = "completed" => jobs'[j].status = "completed"]_vars
    /\ [][\A j \in DOMAIN jobs' \ DOMAIN jobs : jobs'[j].status = "queued"]_vars

\* one job has gone all the way to "completed", its thread has returned, and
\* another is still "queued"
C11_Witness ==
    \E t, u \in Threads :
        /\ threads[t].pc = "returned" /\ Job(t).status = "completed"
        /\ Job(u).status = "queued"

\* ------------------------------------------------------------------ C12
\* C12: serving a status or a download request, for a known or an unknown
\* id, leaves jobs, the threads and the files unchanged, and the result of
\* a status request is the one the same request would get again right away.
C12_RequestsReadOnly ==
    [][\A id \in AnyId :
          /\ Served("status", id) \/ Served("download", id) =>
                /\ jobs' = jobs
                /\ threads' = threads
                /\ files' = files
          /\ Served("status", id) => response' = StatusResult(id)'
          /\ Served("download", id) => response' = DownloadResult(id)']_vars

\* the file of a completed job has been served
C12_Witness ==
    /\ response.op = "download"
    /\ response.body = "file"
    /\ response.job_id \in DOMAIN jobs
    /\ jobs[response.job_id].file = response.path
    /\ response.rows # <<>>

\* ------------------------------------------------------------------ C13
\* C13: while the GET of page p is in flight, the job record has status
\* "running", current_page p and the message naming page p, and this is the
\* record a status request gets.
C13_PageInFlightVisible ==
    \A t \in Threads :
        threads[t].pc = "l60" =>
            /\ Job(t).status = "running"
            /\ Job(t).current_page = threads[t].page
            /\ Job(t).message = Msg("Fetching page", threads[t].page)
            /\ StatusResult(threads[t].job_id).job = Job(t)

\* page 2 is in flight after page 1 failed
C13_Witness ==
    \E t \in Threads :
        /\ threads[t].pc = "l60"
        /\ threads[t].page = 2
        /\ GotError(t, 1)
        /\ Job(t).current_page = 2

\* ------------------------------------------------------------------ C14
\* C14: last_updated is the time of the latest change of the record: in no
\* state has the thread written a field of the record at a clock later than
\* last_updated.  The thread writes last_updated after the other fields
\* (lines 29-31, 55-57, 97-100), and not at all after the message of line
\* 84, so the record is newer than its last_updated in between.
C14_LastUpdatedIsLatest ==
    \A t \in Threads : Job(t).last_updated >= threads[t].changed

\* ------------------------------------------------------------------ C15
\* the loop of t has ended: a page was answered with empty results, or every
\* page from 1 to TOTAL_PAGES has been requested and answered
LoopEnded(t) ==
    \/ \E p \in Fetched(t) : GotEmpty(t, p)
    \/ /\ \A p \in 1..TOTAL_PAGES : p \in Fetched(t)
       /\ threads[t].pc \notin {"l60", "l84"}

\* C15: to_excel is called once per job (never twice, and under fair
\* scheduling once), only when the loop has ended; the file name is made of
\* the job id alone, different for different ids, so a file once written is
\* never written again and no two jobs refer to the same file.
C15_OneExportPerJob ==
    /\ [](\A t \in Threads : threads[t].exports <= 1)
    /\ [][\A t \in Threads :
            threads'[t].exports # threads[t].exports => LoopEnded(t)]_vars
    /\ \A j \in JobIds :
          (j \in DOMAIN jobs) ~>
             (j \in DOMAIN jobs /\ threads[ThreadOf(j)].exports = 1)
    /\ [](\A i, j \in JobIds : i # j => file_name(i) # file_name(j))
    /\ [](\A i, j \in DOMAIN jobs :
            i # j /\ jobs[i].file # None => jobs[i].file # jobs[j].file)
    /\ [](\A t \in Threads :
            Exported(t) => FileOf(t) = threads[t].all_data)
    /\ [][\A f \in DOMAIN files : files'[f] = files[f]]_vars

\* two jobs have exported different records to two files and refer to them
C15_Witness ==
    \E t, u \in Threads :
        /\ threads[t].pc = "returned" /\ threads[u].pc = "returned"
        /\ threads[t].exports = 1 /\ threads[u].exports = 1
        /\ Job(t).file # Job(u).file
        /\ FileOf(t) # FileOf(u)
        /\ Cardinality(DOMAIN files) = 2

\* ------------------------------------------------------------------ C16
\* C16: the requests of a thread are for pages from 1 to TOTAL_PAGES in
\* strictly increasing order, so no page is requested twice and a failed
\* page never again, and there are at most TOTAL_PAGES of them; the page in
\* flight is a page after all those already answered (one request at a
\* time).
C16_OneFetchPerPage ==
    \A t \in Threads :
        LET log == threads[t].log
        IN  /\ Len(log) <= TOTAL_PAGES
            /\ \A i \in 1..Len(log) : log[i].page \in 1..TOTAL_PAGES
            /\ \A i, j \in 1..Len(log) : i < j => log[i].page < log[j].page
            /\ threads[t].pc = "l60" =>
                  /\ threads[t].page \in 1..TOTAL_PAGES
                  /\ \A p \in Fetched(t) : p < threads[t].page

\* three pages were requested in order, the second of which failed
C16_Witness ==
    \E t \in Threads :
        /\ Len(threads[t].log) = 3
        /\ GotBatch(t, 1) /\ GotError(t, 2) /\ GotBatch(t, 3)
        /\ threads[t].failed_pages = 1

\* ------------------------------------------------------------------ C17
FileNotReady(job_id) ==
    Response("download", job_id, "json", "File not ready", None, <<>>)

\* C17: when to_excel has raised, the thread has ended for good, the status
\* is "running" (never "completed", never "failed") and the file None in
\* every later state, and every download request for the job is answered
\* "File not ready".
C17_ExportRaisedStaysRunning ==
    /\ [](\A t \in Threads :
            threads[t].pc = "raised_l89" =>
               /\ Job(t).status = "running"
               /\ Job(t).file = None
               /\ DownloadResult(threads[t].job_id) = FileNotReady(threads[t].job_id))
    /\ [][\A t \in Threads :
            threads[t].pc = "raised_l89" =>
               /\ threads'[t] = threads[t]
               /\ jobs'[threads[t].job_id] = Job(t)
               /\ Served("download", threads[t].job_id) =>
                     response' = FileNotReady(threads[t].job_id)]_vars

\* a download request for a job whose to_excel raised after it had
\* collected records was answered "File not ready"
C17_Witness ==
    \E t \in Threads :
        /\ threads[t].pc = "raised_l89"
        /\ threads[t].all_data # <<>>
        /\ Job(t).status = "running"
        /\ response = FileNotReady(threads[t].job_id)

\* ------------------------------------------------------------------ C18
\* C18: no step takes a record out of jobs, and a step that is a /start, a
\* status request or a download request leaves every record there is as it
\* is: a record once created stays, and the set of ids only grows.
C18_RecordsNeverRemoved ==
    [][/\ DOMAIN jobs \subseteq DOMAIN jobs'
       /\ Len(threads') # Len(threads) \/ response' # response =>
             \A j \in DOMAIN jobs : jobs'[j] = jobs[j]]_vars

\* both jobs are in jobs after the first has returned and been downloaded
C18_Witness ==
    /\ Cardinality(DOMAIN jobs) = MaxJobs
    /\ response.op = "download" /\ response.body = "file"
    /\ \E t \in Threads :
          threads[t].pc = "returned" /\ threads[t].job_id = response.job_id

\* ------------------------------------------------------------------ C19
\* the last page the loop of t has taken up: the first page answered with
\* empty results, or TOTAL_PAGES if no page was
LastAttempted(t) ==
    IF \E p \in Fetched(t) : GotEmpty(t, p) THEN StopPage(t) ELSE TOTAL_PAGES

\* C19: the current_page of a "completed" job is the number of the last page
\* attempted (the first empty page, else TOTAL_PAGES, 0 with no page at
\* all), whatever number of pages was collected.
C19_CompletedCurrentPage ==
    \A t \in Threads :
        Job(t).status = "completed" => Job(t).current_page = LastAttempted(t)

\* a job ended on an empty page 2 of 3 after page 1 had failed: it is
\* "completed" with current_page 2 and no page collected
C19_Witness ==
    \E t \in Threads :
        /\ TOTAL_PAGES = 3
        /\ GotError(t, 1) /\ GotEmpty(t, 2)
        /\ Job(t).status = "completed"
        /\ Job(t).current_page = 2
        /\ Job(t).current_page < Job(t).total_pages
        /\ threads[t].processed_pages = 0

====
